---- MODULE Spec2Model ----
(***************************************************************************)
(* The encrypted local RPC client of the Amazon Q language-server glue:    *)
(* writeEncryptionInit, LspClient and its request methods, activate and    *)
(* deactivate (src/src/codewhisperer/util/codeWhispererSession.ts).        *)
(*                                                                         *)
(* JavaScript runs each handler to its next await, so a request method is  *)
(* one action per segment between awaits: the call up to `await encrypt`,  *)
(* the continuation that reads this.client and calls sendRequest, and the  *)
(* continuation after the transport settles the request.                   *)
(***************************************************************************)
EXTENDS Integers, Sequences, FiniteSets, TLC

\* ----- bounds of the model -------------------------------------------------
MaxCalls == 2
MaxActivations == 2
MaxInitWrites == 2
MaxStreamLen == 2
MaxAccesses == 4
MaxEvents == 3
MaxClock == 3
MaxSetterCalls == 4

\* ----- values --------------------------------------------------------------
Undefined == "undefined"
EmptyArray == "[]"
NoClient == 0
Absent == "<unset>"

Responses == {"{ok:true}", "{ok:false}"}

TryCatchMethods ==
    {"indexFiles", "indexFilesV2", "query", "queryV2", "updateIndex", "updateIndexV2"}
Methods == TryCatchMethods \cup {"getLspServerUsage"}

Targets == {"bm25", "vector", "codemap", "other"}
Modes == {"add", "remove"}
QueryStrings == {"foo"}
PathLists == {<<"a.ts">>}
RootPaths == {"/ws"}
Languages == {"plaintext"}
WorkerThreadSettings == {-1, 0, 1, 50, 99, 100, 150}
InheritedEnvValues == {Absent, "true", "7"}

\* import { ...RequestType } from './types' : the tag a request is sent under
IndexRequestType == "IndexRequestType"
BuildIndexRequestType == "BuildIndexRequestType"
QueryRequestType == "QueryRequestType"
QueryBM25IndexRequestType == "QueryBM25IndexRequestType"
QueryVectorIndexRequestType == "QueryVectorIndexRequestType"
QueryCodeMapIndexRequestType == "QueryCodeMapIndexRequestType"
GetUsageRequestType == "GetUsageRequestType"
UpdateIndexRequestType == "UpdateIndexRequestType"
UpdateIndexV2RequestType == "UpdateIndexV2RequestType"

\* const key = crypto.randomBytes(32)
key == "key32"

VARIABLES
    client,         \* LspClient.instance.client: NoClient or the id of a LanguageClient
    children,       \* number of child processes spawned so far (ids 1..children)
    transport,      \* per LanguageClient/child: "running" or "stopped"
    stdin,          \* per child: everything written to its standard input, in order
    env,            \* process.env: Q_ENABLE_GPU and Q_WORKER_THREADS
    settings,       \* what the last activate read from CodeWhispererSettings
    lifecycle,      \* the last of activate/deactivate to have run ("loaded": neither)
    calls,          \* the request-method invocations, in submission order
    sent,           \* the sendRequest calls made on a LanguageClient, in order
    log,            \* getLogger().error entries, in order
    completed,      \* ids of the settled calls, in completion order
    ivs,            \* number of encryptions done (each draws a fresh IV)
    writable,       \* a Writable handed to writeEncryptionInit, and a JWE made since
    singleton,      \* LspClient.#instance, the LspClient objects, the accesses made
    handlers,       \* each activation's savedDocument, and the editor events delivered
    session         \* a CodeWhispererSession's latency timestamps, the clock, the calls made

lspVars == <<client, children, transport, stdin, env, settings, lifecycle,
             calls, sent, log, completed, ivs>>

auxVars == <<writable, singleton, handlers, session>>

vars == <<lspVars, auxVars>>

\* ----- JSON.stringify, as the token sequence of the text it produces -------
JSONString(s) == <<s>>
JSONBool(b) == <<IF b THEN "true" ELSE "false">>
JSONArray(items) == <<"[">> \o items \o <<"]">>

RECURSIVE JSONMembers(_)
JSONMembers(fields) ==
    IF fields = <<>> THEN <<>>
    ELSE <<fields[1][1], ":">> \o fields[1][2]
         \o (IF Len(fields) > 1 THEN <<",">> ELSE <<>>)
         \o JSONMembers(Tail(fields))

JSONStringify(fields) == <<"{">> \o JSONMembers(fields) \o <<"}">>

\* Buffer.toString('base64')
Base64(k) == "base64(" \o k \o ")"

\* ----- writeEncryptionInit -------------------------------------------------
\* faulty variant: the JSON text written without the newline that ends the line
writeEncryptionInitNoNewline(stream) ==
    stream \o << <<"{", "version", ":", "1.0", ",", "mode", ":", "JWT", ",",
                  "key", ":", "base64(key32)", "}">> >>

EncryptionInitRequest ==
    <<  <<"version", JSONString("1.0")>>,
        <<"mode", JSONString("JWT")>>,
        <<"key", JSONString(Base64(key))>>  >>

writeEncryptionInit(stream) ==
    stream \o <<JSONStringify(EncryptionInitRequest)>> \o << <<"\n">> >>

\* ----- LspClient.encrypt ---------------------------------------------------
\* faulty variant: the payload handed on as it is, unencrypted
encryptSkipped(payload, iv) ==
    [alg |-> "none", enc |-> "none", iv |-> 0, sealedWith |-> "none", sealed |-> payload]

\* A compact JWE: protected header {alg: dir, enc: A256GCM}, a fresh IV, and the
\* plaintext sealed under the key.
encrypt(payload, iv) ==
    [alg |-> "dir", enc |-> "A256GCM", iv |-> iv, sealedWith |-> key, sealed |-> payload]

\* the '' that getLspServerUsage sends
EmptyPayload ==
    [alg |-> "none", enc |-> "none", iv |-> 0, sealedWith |-> "none", sealed |-> <<>>]

\* the matching decryption routine of the server
Decrypt(jwe, k) ==
    IF jwe.enc = "A256GCM" /\ jwe.alg = "dir" /\ jwe.sealedWith = k
    THEN jwe.sealed ELSE <<"<garbage>">>

\* ----- the request methods: payload, tag, log tag, sentinel -----------------
\* the JSON text each method builds before encrypting it
Payload(method, a) ==
    CASE method = "indexFiles" ->
            JSONStringify(<< <<"filePaths", JSONArray(a.paths)>>,
                             <<"rootPath", JSONString(a.root)>>,
                             <<"refresh", JSONBool(a.refresh)>> >>)
      [] method = "indexFilesV2" ->
            JSONStringify(<< <<"filePaths", JSONArray(a.paths)>>,
                             <<"projectRoot", JSONString(a.root)>>,
                             <<"config", JSONString("all")>>,
                             <<"language", JSONString(a.language)>> >>)
      [] method = "query" ->
            JSONStringify(<< <<"query", JSONString(a.str)>> >>)
      [] method = "queryV2" ->
            IF a.target = "codemap"
            THEN JSONStringify(<< <<"filePath", JSONString(a.str)>> >>)
            ELSE JSONStringify(<< <<"query", JSONString(a.str)>> >>)
      [] method = "updateIndex" ->
            JSONStringify(<< <<"filePath", JSONString(a.str)>> >>)
      [] method = "updateIndexV2" ->
            JSONStringify(<< <<"filePaths", JSONArray(a.paths)>>,
                             <<"updateMode", JSONString(a.mode)>> >>)
      [] OTHER -> <<>>

\* faulty variant: the code-map target sent under the vector tag
QueryV2TagCodemapAsVector(target) ==
    CASE target = "bm25" -> QueryBM25IndexRequestType
      [] target = "vector" -> QueryVectorIndexRequestType
      [] target = "codemap" -> QueryVectorIndexRequestType
      [] OTHER -> "throw"

\* queryV2's switch (target): the request type, or "throw" for the default branch
QueryV2Tag(target) ==
    CASE target = "bm25" -> QueryBM25IndexRequestType
      [] target = "vector" -> QueryVectorIndexRequestType
      [] target = "codemap" -> QueryCodeMapIndexRequestType
      [] OTHER -> "throw"

\* the request type each method passes to sendRequest
TagOf(method, a) ==
    CASE method = "indexFiles" -> IndexRequestType
      [] method = "indexFilesV2" -> BuildIndexRequestType
      [] method = "query" -> QueryRequestType
      [] method = "queryV2" -> QueryV2Tag(a.target)
      [] method = "updateIndex" -> UpdateIndexRequestType
      [] method = "updateIndexV2" -> UpdateIndexV2RequestType
      [] OTHER -> GetUsageRequestType

\* the name in each catch block's `LspClient: <name> error: ...`
LogTag(method) ==
    CASE method = "indexFiles" -> "indexFiles"
      [] method = "indexFilesV2" -> "indexFilesV2"
      [] method = "query" -> "query"
      [] method = "queryV2" -> "query"
      [] method = "updateIndex" -> "updateIndex"
      [] method = "updateIndexV2" -> "updateIndexV2"
      [] OTHER -> "none"

\* what each catch block returns
CatchValue(method) ==
    IF method \in {"query", "queryV2"} THEN EmptyArray ELSE Undefined

\* `this.client?.sendRequest(...)` with this.client undefined: resp is undefined
NoClientValue(method) == Undefined

\* ----- the arguments a call is made with -----------------------------------
NoArgs ==
    [paths |-> <<>>, root |-> "", refresh |-> FALSE, language |-> "",
     str |-> "", target |-> "", mode |-> ""]

ArgsOf(method) ==
    CASE method = "indexFiles" ->
            {[NoArgs EXCEPT !.paths = p, !.root = r, !.refresh = TRUE] :
                p \in PathLists, r \in RootPaths}
      [] method = "indexFilesV2" ->
            {[NoArgs EXCEPT !.paths = p, !.root = r, !.language = l] :
                p \in PathLists, r \in RootPaths, l \in Languages}
      [] method = "query" -> {[NoArgs EXCEPT !.str = q] : q \in QueryStrings}
      [] method = "queryV2" ->
            {[NoArgs EXCEPT !.str = q, !.target = t] : q \in QueryStrings, t \in Targets}
      [] method = "updateIndex" -> {[NoArgs EXCEPT !.str = q] : q \in QueryStrings}
      [] method = "updateIndexV2" ->
            {[NoArgs EXCEPT !.paths = p, !.mode = m] : p \in PathLists, m \in Modes}
      [] OTHER -> {NoArgs}

\* ----- initial state: the module is loaded, nothing is activated ------------
InitState(inherited) ==
    /\ client = NoClient
    /\ children = 0
    /\ transport = <<>>
    /\ stdin = <<>>
    /\ env \in [Q_ENABLE_GPU : inherited, Q_WORKER_THREADS : inherited]
    /\ settings = [read |-> FALSE, workerThreads |-> 0, gpu |-> FALSE, envBefore |-> env]
    /\ lifecycle = "loaded"
    /\ calls = <<>>
    /\ sent = <<>>
    /\ log = <<>>
    /\ completed = <<>>
    /\ ivs = 0

\* no stream has been handed to writeEncryptionInit outside activate
NoWritable ==
    [before |-> <<>>, stream |-> <<>>, writes |-> 0, jwe |-> EmptyPayload]

\* static #instance: LspClient, not yet assigned; no LspClient constructed
NoSingleton == [instance |-> 0, objects |-> <<>>, accesses |-> <<>>]

\* a vscode.Uri that is undefined, an editor that is undefined
NoDocument == [scheme |-> "undefined", fsPath |-> "undefined"]

\* the documents and files the editor reports
FileA == [scheme |-> "file", fsPath |-> "/a.ts"]
FileB == [scheme |-> "file", fsPath |-> "/b.ts"]
UntitledA == [scheme |-> "untitled", fsPath |-> "/a.ts"]
Documents == {FileA, FileB, UntitledA}
Editors == {NoDocument} \cup Documents
FileLists == {<<FileA>>, <<FileB, FileA>>}

\* no activation has registered handlers, no event has been delivered
NoHandlers == [saved |-> <<>>, events |-> <<>>]

\* the field initialisers of CodeWhispererSession
NewSessionTimes ==
    [fetchCredentialStartTime |-> 0, sdkApiCallStartTime |-> 0,
     invokeSuggestionStartTime |-> 0]

\* a new session; performance.now() is positive once the module has loaded
NewSession == [times |-> NewSessionTimes, now |-> 1, history |-> <<>>]

AuxIdle ==
    /\ writable = NoWritable
    /\ singleton = NoSingleton
    /\ handlers = NoHandlers
    /\ session = NewSession

\* the extension host starts with neither variable in its environment
Init == InitState({Absent}) /\ AuxIdle

\* ... or inherits whatever its parent process had set
InitEnv == InitState(InheritedEnvValues) /\ AuxIdle


\* ----- Number.prototype.toString() of a non-negative integer ---------------
Digit(d) ==
    CASE d = 0 -> "0" [] d = 1 -> "1" [] d = 2 -> "2" [] d = 3 -> "3" [] d = 4 -> "4"
      [] d = 5 -> "5" [] d = 6 -> "6" [] d = 7 -> "7" [] d = 8 -> "8" [] OTHER -> "9"

RECURSIVE toString(_)
toString(n) == IF n < 10 THEN Digit(n) ELSE toString(n \div 10) \o Digit(n % 10)

\* ----- activate ------------------------------------------------------------
\* faulty variant: the variables are set when enabled but never deleted
ActivateEnvNoDelete(workerThreads, gpu) ==
    [Q_ENABLE_GPU |-> IF gpu THEN "true" ELSE env.Q_ENABLE_GPU,
     Q_WORKER_THREADS |->
        IF workerThreads > 0 /\ workerThreads < 100
        THEN toString(workerThreads) ELSE env.Q_WORKER_THREADS]

\* process.env after activate has applied the two settings
ActivateEnv(workerThreads, gpu) ==
    [Q_ENABLE_GPU |-> IF gpu THEN "true" ELSE Absent,
     Q_WORKER_THREADS |->
        IF workerThreads > 0 /\ workerThreads < 100
        THEN toString(workerThreads) ELSE Absent]

\* LanguageClient.start(): the client opens the connection over the child's
\* stdio and writes its initialize request
LanguageClientStart(stream) == stream \o << <<"rpc", "initialize">> >>

\* faulty variant: the key written only after the client has been started
ActivateStdinKeyLate == writeEncryptionInit(LanguageClientStart(<<>>))

\* what activate causes to be written to the new child's stdin, in order:
\* cp.spawn, writeEncryptionInit(child.stdin), new LanguageClient, start()
ActivateStdin == LanguageClientStart(writeEncryptionInit(<<>>))

\* the handle LspClient.instance.client holds once activate has run
ActivateClient(child) == child

Activate(workerThreads, gpu) ==
    /\ children < MaxActivations
    /\ settings' = [read |-> TRUE, workerThreads |-> workerThreads, gpu |-> gpu,
                     envBefore |-> env]
    /\ lifecycle' = "activated"
    /\ env' = ActivateEnv(workerThreads, gpu)
    /\ children' = children + 1
    /\ stdin' = Append(stdin, ActivateStdin)
    /\ transport' = Append(transport, "running")
    /\ client' = ActivateClient(children + 1)
    /\ handlers' = [handlers EXCEPT !.saved = Append(@, NoDocument)]
    /\ UNCHANGED <<calls, sent, log, completed, ivs, writable, singleton, session>>

\* ----- deactivate ----------------------------------------------------------
\* client.stop() on LanguageClient c: the requests still awaited on it are now
\* in flight on a closing connection
StopClient(c) ==
    [m \in 1..Len(sent) |->
        IF sent[m].client = c /\ sent[m].status = "pending"
        THEN [sent[m] EXCEPT !.inFlightAtStop = TRUE] ELSE sent[m]]

\* the handle after deactivate: the function returns client.stop() and assigns
\* nothing to LspClient.instance.client
DeactivateClient(c) == c

Deactivate ==
    /\ lifecycle' = "deactivated"
    /\ IF client = NoClient
       THEN UNCHANGED <<client, transport, sent>>
       ELSE /\ transport' = [transport EXCEPT ![client] = "stopped"]
            /\ sent' = StopClient(client)
            /\ client' = DeactivateClient(client)
    /\ UNCHANGED <<children, stdin, env, settings, calls, log, completed, ivs>>
    /\ UNCHANGED auxVars

\* ----- the request methods -------------------------------------------------
NewCall(method, a) ==
    [method |-> method, args |-> a, plain |-> Payload(method, a), pc |-> "encrypt",
     outcome |-> "pending", result |-> "", clientAtCall |-> client,
     clientAtSend |-> NoClient, dispatched |-> 0]

Settle(call, outcome, value) ==
    [call EXCEPT !.pc = "done", !.outcome = outcome, !.result = value]

\* client.sendRequest(tag, payload) on LanguageClient c, for call id
SendRequest(c, id, tag, payload) ==
    /\ sent' = Append(sent, [call |-> id, client |-> c, tag |-> tag, payload |-> payload,
                             status |-> "pending", response |-> "", settled |-> 0,
                             inFlightAtStop |-> FALSE])
    /\ stdin' = [stdin EXCEPT ![c] = Append(@, <<"rpc", tag>>)]

\* faulty variant: the method returns its catch value without awaiting the
\* request it has just sent
AfterSendNotAwaited(call, c) ==
    [call EXCEPT !.pc = "done", !.outcome = "resolved", !.result = CatchValue(call.method),
                 !.clientAtSend = c, !.dispatched = 1]

\* a method once it has called sendRequest on c: suspended at the await until
\* the returned promise settles (there is no timer and no cancellation)
AfterSend(call, c) ==
    [call EXCEPT !.pc = "await", !.clientAtSend = c, !.dispatched = 1]

\* what a try/catch method does with an error e: log it, return the catch value
Catch(id, call, e) ==
    /\ log' = Append(log, [tag |-> LogTag(call.method), call |-> id, error |-> e])
    /\ calls' = [calls EXCEPT ![id] = Settle(call, "resolved", CatchValue(call.method))]
    /\ completed' = Append(completed, id)

\* getLspServerUsage has no await before its sendRequest: one segment
CallGetLspServerUsage ==
    /\ Len(calls) < MaxCalls
    /\ LET id == Len(calls) + 1
           call == NewCall("getLspServerUsage", NoArgs)
       IN IF client # NoClient
          THEN /\ SendRequest(client, id, GetUsageRequestType, EmptyPayload)
               /\ calls' = Append(calls, AfterSend(call, client))
               /\ UNCHANGED completed
          ELSE /\ calls' = Append(calls, Settle(call, "resolved", Undefined))
               /\ completed' = Append(completed, id)
               /\ UNCHANGED <<sent, stdin>>
    /\ UNCHANGED <<client, children, transport, env, settings, lifecycle, log, ivs>>
    /\ UNCHANGED auxVars

\* a try/catch method up to its `await this.encrypt(JSON.stringify(...))`
CallMethod(method, a) ==
    /\ Len(calls) < MaxCalls
    /\ calls' = Append(calls, NewCall(method, a))
    /\ UNCHANGED <<client, children, transport, stdin, env, settings, lifecycle,
                   sent, log, completed, ivs>>
    /\ UNCHANGED auxVars

\* encrypt resolved: the method reads this.client and sends, or (queryV2) throws
EncryptResolve(id) ==
    /\ calls[id].pc = "encrypt"
    /\ ivs' = ivs + 1
    /\ LET call == calls[id]
           tag == TagOf(call.method, call.args)
       IN IF tag = "throw"
          THEN Catch(id, call, "invalid target") /\ UNCHANGED <<sent, stdin>>
          ELSE IF client = NoClient
          THEN /\ calls' = [calls EXCEPT
                              ![id] = Settle(call, "resolved", NoClientValue(call.method))]
               /\ completed' = Append(completed, id)
               /\ UNCHANGED <<sent, stdin, log>>
          ELSE /\ SendRequest(client, id, tag, encrypt(call.plain, ivs + 1))
               /\ calls' = [calls EXCEPT ![id] = AfterSend(call, client)]
               /\ UNCHANGED <<log, completed>>
    /\ UNCHANGED <<client, children, transport, env, settings, lifecycle>>
    /\ UNCHANGED auxVars

\* encrypt rejected: the catch block runs, nothing is sent
EncryptReject(id) ==
    /\ calls[id].pc = "encrypt"
    /\ Catch(id, calls[id], "encrypt")
    /\ UNCHANGED <<client, children, transport, stdin, env, settings, lifecycle,
                   sent, ivs>>
    /\ UNCHANGED auxVars

\* faulty variant: the response dropped in favour of the catch value
ReturnValueDropped(method, resp) == CatchValue(method)

\* what a method returns when sendRequest resolved with resp
ReturnValue(method, resp) == resp

\* the position of the next settlement among all the transport's settlements
NextSettled == Cardinality({k \in 1..Len(sent) : sent[k].status # "pending"}) + 1

\* the transport answers request m with v
TransportRespond(m, v) ==
    /\ sent[m].status = "pending"
    /\ transport[sent[m].client] = "running"
    /\ sent' = [sent EXCEPT ![m].status = "responded", ![m].response = v,
                             ![m].settled = NextSettled]
    /\ LET id == sent[m].call
       IN /\ calls' = [calls EXCEPT
                         ![id] = Settle(@, "resolved", ReturnValue(calls[id].method, v))]
          /\ completed' = Append(completed, id)
    /\ UNCHANGED <<client, children, transport, stdin, env, settings, lifecycle, log, ivs>>
    /\ UNCHANGED auxVars

\* the transport rejects request m (an error of the server, a closed connection,
\* a client that is not running)
TransportReject(m) ==
    /\ sent[m].status = "pending"
    /\ sent' = [sent EXCEPT ![m].status = "rejected", ![m].settled = NextSettled]
    /\ LET id == sent[m].call
           call == calls[id]
       IN IF call.method \in TryCatchMethods
          THEN Catch(id, call, "transport")
          ELSE /\ calls' = [calls EXCEPT ![id] = Settle(call, "rejected", "error")]
               /\ completed' = Append(completed, id)
               /\ UNCHANGED log
    /\ UNCHANGED <<client, children, transport, stdin, env, settings, lifecycle, ivs>>
    /\ UNCHANGED auxVars

\* the whole client: activation with one fixed pair of settings
Next ==
    \/ \E n \in {50}, gpu \in {TRUE} : Activate(n, gpu)
    \/ Deactivate
    \/ CallGetLspServerUsage
    \/ \E method \in TryCatchMethods : \E a \in ArgsOf(method) : CallMethod(method, a)
    \/ \E id \in 1..Len(calls) : EncryptResolve(id)
    \/ \E id \in 1..Len(calls) : EncryptReject(id)
    \/ \E m \in 1..Len(sent), v \in Responses : TransportRespond(m, v)
    \/ \E m \in 1..Len(sent) : TransportReject(m)

Spec == Init /\ [][Next]_vars

\* activation and shutdown alone, over every setting of the two spawn flags
NextEnv ==
    \/ \E n \in WorkerThreadSettings, gpu \in BOOLEAN : Activate(n, gpu)
    \/ Deactivate

SpecEnv == InitEnv /\ [][NextEnv]_vars

\* the client over a transport that settles every request it is given
TransportSettles(m) ==
    /\ m \in 1..Len(sent)
    /\ (TransportReject(m) \/ \E v \in Responses : TransportRespond(m, v))

\* ----- writeEncryptionInit and encrypt on their own ---------------------------
\* what a stream may already hold when it is handed to writeEncryptionInit
StreamChunks == {<<"x">>, <<"\n">>, <<"rpc", "initialize">>}

RECURSIVE StreamsUpTo(_)
StreamsUpTo(n) ==
    IF n = 0 THEN {<<>>}
    ELSE StreamsUpTo(n - 1)
         \cup {Append(st, ch) : st \in {x \in StreamsUpTo(n - 1) : Len(x) = n - 1},
                                 ch \in StreamChunks}

InitStream ==
    /\ InitState({Absent})
    /\ writable \in {[NoWritable EXCEPT !.before = st, !.stream = st] :
                        st \in StreamsUpTo(MaxStreamLen)}
    /\ singleton = NoSingleton
    /\ handlers = NoHandlers
    /\ session = NewSession

\* writeEncryptionInit(stream)
WriteEncryptionInit ==
    /\ writable.writes < MaxInitWrites
    /\ writable' = [writable EXCEPT !.stream = writeEncryptionInit(@), !.writes = @ + 1]
    /\ UNCHANGED <<lspVars, singleton, handlers, session>>

\* LspClient.encrypt(payload)
Encrypt(payload) ==
    /\ ivs < MaxCalls
    /\ ivs' = ivs + 1
    /\ writable' = [writable EXCEPT !.jwe = encrypt(payload, ivs + 1)]
    /\ UNCHANGED <<client, children, transport, stdin, env, settings, lifecycle,
                   calls, sent, log, completed, singleton, handlers, session>>

NextStream ==
    \/ WriteEncryptionInit
    \/ \E q \in QueryStrings : Encrypt(Payload("query", [NoArgs EXCEPT !.str = q]))

SpecStream == InitStream /\ [][NextStream]_vars

\* ----- the editor event handlers that activate registers ---------------------
\* e.files.map((f) => f.fsPath)
FsPaths(files) == [i \in DOMAIN files |-> files[i].fsPath]

\* faulty variant: the creation handler sends the mode 'update'
CreateFilesRequestAsUpdate(files) ==
    [NoArgs EXCEPT !.paths = FsPaths(files), !.mode = "update"]

\* updateIndexV2(e.files.map((f) => f.fsPath), 'add')
CreateFilesRequest(files) == [NoArgs EXCEPT !.paths = FsPaths(files), !.mode = "add"]

\* updateIndexV2(e.files.map((f) => f.fsPath), 'remove')
DeleteFilesRequest(files) == [NoArgs EXCEPT !.paths = FsPaths(files), !.mode = "remove"]

\* faulty variant: the path comparison is left out
ShouldUpdateIndexAnyEditor(savedDocument, editor) ==
    savedDocument # NoDocument /\ editor # NoDocument

\* savedDocument && editor && editor.document.uri.fsPath !== savedDocument.fsPath
ShouldUpdateIndex(savedDocument, editor) ==
    /\ savedDocument # NoDocument
    /\ editor # NoDocument
    /\ editor.fsPath # savedDocument.fsPath

\* updateIndex(savedDocument.fsPath)
UpdateIndexRequest(savedDocument) == [NoArgs EXCEPT !.str = savedDocument.fsPath]

\* one event is delivered to the handlers of every activation, which make the
\* calls `issued` (each runs to its first await)
Deliver(kind, uri, files, issued) ==
    /\ Len(handlers.events) < MaxEvents
    /\ Len(calls) + Len(issued) <= MaxCalls
    /\ calls' = calls \o issued
    /\ handlers' = [handlers EXCEPT
            !.events = Append(@, [kind |-> kind, uri |-> uri, files |-> files,
                                  handlers |-> Len(handlers.saved),
                                  first |-> Len(calls) + 1, count |-> Len(issued)]),
            !.saved = IF kind = "save" /\ uri.scheme = "file"
                      THEN [h \in DOMAIN @ |-> uri] ELSE @]
    /\ UNCHANGED <<client, children, transport, stdin, env, settings, lifecycle,
                   sent, log, completed, ivs, writable, singleton, session>>

\* onDidSaveTextDocument: a document of another scheme returns early
OnDidSaveTextDocument(document) == Deliver("save", document, <<>>, <<>>)

\* onDidChangeActiveTextEditor
OnDidChangeActiveTextEditor(editor) ==
    LET due == SelectSeq(handlers.saved, LAMBDA d : ShouldUpdateIndex(d, editor))
    IN Deliver("editor", editor, <<>>,
               [i \in DOMAIN due |-> NewCall("updateIndex", UpdateIndexRequest(due[i]))])

\* onDidCreateFiles
OnDidCreateFiles(files) ==
    Deliver("create", NoDocument, files,
            [h \in DOMAIN handlers.saved |->
                NewCall("updateIndexV2", CreateFilesRequest(files))])

\* onDidDeleteFiles
OnDidDeleteFiles(files) ==
    Deliver("delete", NoDocument, files,
            [h \in DOMAIN handlers.saved |->
                NewCall("updateIndexV2", DeleteFilesRequest(files))])

\* onDidRenameFiles: the body is commented out
OnDidRenameFiles(files) == Deliver("rename", NoDocument, files, <<>>)

\* the client driven by the editor's events alone
NextEvents ==
    \/ \E n \in {50}, gpu \in {TRUE} : Activate(n, gpu)
    \/ \E document \in Documents : OnDidSaveTextDocument(document)
    \/ \E editor \in Editors : OnDidChangeActiveTextEditor(editor)
    \/ \E files \in FileLists : OnDidCreateFiles(files)
    \/ \E files \in FileLists : OnDidDeleteFiles(files)
    \/ \E files \in FileLists : OnDidRenameFiles(files)
    \/ \E id \in 1..Len(calls) : EncryptResolve(id)
    \/ \E id \in 1..Len(calls) : EncryptReject(id)

SpecEvents == Init /\ [][NextEvents]_vars

\* ----- the latency timestamps of CodeWhispererSession -----------------------
\* faulty variant: the `=== 0` test is left out
setFetchCredentialStartOverwrites(t, now) ==
    IF t.invokeSuggestionStartTime # 0
    THEN [t EXCEPT !.fetchCredentialStartTime = now] ELSE t

\* setFetchCredentialStart(), with performance.now() = now
setFetchCredentialStart(t, now) ==
    IF t.fetchCredentialStartTime = 0 /\ t.invokeSuggestionStartTime # 0
    THEN [t EXCEPT !.fetchCredentialStartTime = now] ELSE t

\* setSdkApiCallStart(), with performance.now() = now
setSdkApiCallStart(t, now) ==
    IF t.sdkApiCallStartTime = 0 /\ t.fetchCredentialStartTime # 0
    THEN [t EXCEPT !.sdkApiCallStartTime = now] ELSE t

\* one call on the session, recorded with the fields before and after it
SessionCall(op, after) ==
    /\ Len(session.history) < MaxSetterCalls
    /\ session' = [session EXCEPT
            !.times = after,
            !.history = Append(@, [op |-> op, before |-> session.times,
                                   after |-> after, now |-> session.now])]
    /\ UNCHANGED <<lspVars, writable, singleton, handlers>>

SetFetchCredentialStart ==
    SessionCall("setFetchCredentialStart",
                setFetchCredentialStart(session.times, session.now))

SetSdkApiCallStart ==
    SessionCall("setSdkApiCallStart", setSdkApiCallStart(session.times, session.now))

\* the caller starts an invocation: invokeSuggestionStartTime = performance.now()
SetInvokeSuggestionStart ==
    /\ session.times.invokeSuggestionStartTime = 0
    /\ SessionCall("invoke",
                   [session.times EXCEPT !.invokeSuggestionStartTime = session.now])

\* time passes between two calls
ClockAdvances ==
    /\ session.now < MaxClock
    /\ session' = [session EXCEPT !.now = @ + 1]
    /\ UNCHANGED <<lspVars, writable, singleton, handlers>>

NextSession ==
    \/ SetFetchCredentialStart
    \/ SetSdkApiCallStart
    \/ SetInvokeSuggestionStart
    \/ ClockAdvances

SpecSession == Init /\ [][NextSession]_vars

\* ----- the lazy singleton ---------------------------------------------------
\* faulty variant: the accessor constructs a new LspClient on every read
InstanceGetterAlwaysNew(g) ==
    [g EXCEPT !.objects = Append(@, NoClient), !.instance = Len(g.objects) + 1]

\* static get instance() { return (this.#instance ??= new this()) }, with the
\* constructor's this.client = undefined: the state after the read, whose
\* instance field is the object returned
InstanceGetter(g) ==
    IF g.instance = 0
    THEN [g EXCEPT !.objects = Append(@, NoClient), !.instance = Len(g.objects) + 1]
    ELSE g

Access(g, by) ==
    [g EXCEPT !.accesses = Append(@, [by |-> by, object |-> g.instance,
                                      client |-> g.objects[g.instance]])]

\* a bare read of LspClient.instance
ReadInstance ==
    /\ Len(singleton.accesses) < MaxAccesses
    /\ singleton' = Access(InstanceGetter(singleton), "read")
    /\ UNCHANGED <<lspVars, writable, handlers, session>>

\* activate: LspClient.instance.client = new LanguageClient(...)
ActivateInstance ==
    /\ Len(singleton.accesses) < MaxAccesses
    /\ LET g == InstanceGetter(singleton)
           handle == Cardinality({i \in 1..Len(g.accesses) : g.accesses[i].by = "activate"}) + 1
       IN singleton' = Access([g EXCEPT !.objects[g.instance] = handle], "activate")
    /\ UNCHANGED <<lspVars, writable, handlers, session>>

\* LspClient.instance.<request method>(...): the method reads this.client
RequestOnInstance ==
    /\ Len(singleton.accesses) < MaxAccesses
    /\ singleton' = Access(InstanceGetter(singleton), "request")
    /\ UNCHANGED <<lspVars, writable, handlers, session>>

\* deactivate: reads LspClient.instance.client
DeactivateInstance ==
    /\ Len(singleton.accesses) < MaxAccesses
    /\ singleton' = Access(InstanceGetter(singleton), "deactivate")
    /\ UNCHANGED <<lspVars, writable, handlers, session>>

NextSingleton ==
    \/ ReadInstance
    \/ ActivateInstance
    \/ RequestOnInstance
    \/ DeactivateInstance

SpecSingleton == Init /\ [][NextSingleton]_vars

SpecFair == Spec /\ \A m \in 1..MaxCalls : WF_vars(TransportSettles(m))


\* ===========================================================================
\* Properties
\* ===========================================================================
MessagesOf(id) == {m \in 1..Len(sent) : sent[m].call = id}
LogEntriesOf(id) == {i \in 1..Len(log) : log[i].call = id}
Done(id) == calls[id].pc = "done"
EncryptFailed(id) == \E i \in LogEntriesOf(id) : log[i].error = "encrypt"

\* the sentinel the specification defines for each kind
SpecSentinel(method) ==
    IF method \in {"query", "queryV2"} THEN "[]" ELSE "undefined"

\* C1: a request method called while no channel handle is set sends nothing and
\* resolves, without rejecting, to its kind's sentinel: undefined for the index,
\* update and get-usage kinds, an empty sequence for query and queryV2.
\* (Stated for runs in which no handle is ever set, so that the handle is
\* absent for the whole of the call.)
C1_NoChannelSentinel ==
    children = 0 =>
        \A id \in 1..Len(calls) :
            Done(id) =>
                /\ MessagesOf(id) = {}
                /\ calls[id].outcome = "resolved"
                /\ calls[id].result = SpecSentinel(calls[id].method)

\* C2: no call of any request method, getLspServerUsage included, ever settles
\* as a rejection: a transport error becomes the kind's sentinel.
C2_NoCallRejects ==
    \A id \in 1..Len(calls) :
        Done(id) =>
            /\ calls[id].outcome = "resolved"
            /\ (\E m \in MessagesOf(id) : sent[m].status = "rejected")
                    => calls[id].result = SpecSentinel(calls[id].method)

\* C3: the channel handle is absent before activate, present after it, and
\* absent again once deactivate has run.
C3_HandleClearedOnDeactivate ==
    /\ lifecycle = "loaded" => client = NoClient
    /\ lifecycle = "activated" => client # NoClient
    /\ lifecycle = "deactivated" => client = NoClient

\* the bootstrap line of section 6, as JSON text
InitLine ==
    <<"{", "version", ":", "1.0", ",", "mode", ":", "JWT", ",",
      "key", ":", "base64(key32)", "}">>

\* C4: every spawned child has the key bootstrap message on its standard input
\* exactly once, as the first data of the stream, and the channel handle and
\* every request sent refer only to a child that has been sent the key.
C4_KeyFirstExactlyOnce ==
    /\ \A c \in 1..children :
        /\ Len(stdin[c]) >= 2
        /\ stdin[c][1] = InitLine
        /\ stdin[c][2] = <<"\n">>
        /\ \A i \in 2..Len(stdin[c]) : stdin[c][i] # InitLine
    /\ client # NoClient => client \in 1..children
    /\ \A m \in 1..Len(sent) : sent[m].client \in 1..children

\* C4 witness: an encrypted request has been sent to a child
C4_Witness ==
    \E m \in 1..Len(sent) :
        /\ sent[m].payload.enc = "A256GCM"
        /\ Len(stdin[sent[m].client]) >= 4

\* the payload shapes of section 6, as JSON text
SpecPayload(method, a) ==
    CASE method = "indexFiles" ->
            <<"{", "filePaths", ":", "[">> \o a.paths \o <<"]", ",", "rootPath", ":", a.root,
              ",", "refresh", ":", IF a.refresh THEN "true" ELSE "false", "}">>
      [] method = "indexFilesV2" ->
            <<"{", "filePaths", ":", "[">> \o a.paths \o <<"]", ",", "projectRoot", ":", a.root,
              ",", "config", ":", "all", ",", "language", ":", a.language, "}">>
      [] method = "query" -> <<"{", "query", ":", a.str, "}">>
      [] method = "queryV2" ->
            IF a.target = "codemap" THEN <<"{", "filePath", ":", a.str, "}">>
            ELSE <<"{", "query", ":", a.str, "}">>
      [] method = "updateIndex" -> <<"{", "filePath", ":", a.str, "}">>
      [] method = "updateIndexV2" ->
            <<"{", "filePaths", ":", "[">> \o a.paths \o <<"]", ",", "updateMode", ":",
              a.mode, "}">>
      [] OTHER -> <<>>

\* C5: every request sent under a tag other than get-usage carries the
\* encryption of the JSON text of its kind's fields, never the plaintext; a call
\* whose encryption fails sends nothing and returns its sentinel.
C5_PayloadsEncrypted ==
    /\ \A m \in 1..Len(sent) :
        sent[m].tag # GetUsageRequestType =>
            /\ sent[m].payload.alg = "dir"
            /\ sent[m].payload.enc = "A256GCM"
            /\ Decrypt(sent[m].payload, key)
                    = SpecPayload(calls[sent[m].call].method, calls[sent[m].call].args)
    /\ \A id \in 1..Len(calls) :
        EncryptFailed(id) =>
            /\ MessagesOf(id) = {}
            /\ Done(id)
            /\ calls[id].outcome = "resolved"
            /\ calls[id].result = SpecSentinel(calls[id].method)

\* C5 witness: one call has sent an encrypted request, another failed to encrypt
C5_Witness ==
    /\ \E m \in 1..Len(sent) : sent[m].tag = BuildIndexRequestType
    /\ \E id \in 1..Len(calls) : EncryptFailed(id)


\* decimal notation, by position: the pairs <<n, numeral of n>> for n in 0..99
Digits == <<"0", "1", "2", "3", "4", "5", "6", "7", "8", "9">>
Numerals ==
    {<<10 * t + o, (IF t = 0 THEN "" ELSE Digits[t + 1]) \o Digits[o + 1]>> :
        t \in 0..9, o \in 0..9}

\* C6: once activate has read the settings, Q_WORKER_THREADS holds the decimal
\* string of the configured count n exactly when 1 <= n <= 99 and is otherwise
\* absent, and Q_ENABLE_GPU is set exactly when the GPU setting is enabled and
\* is otherwise absent, whatever the two variables held before.
C6_EnvFollowsSettings ==
    settings.read =>
        /\ IF settings.workerThreads \in 1..99
           THEN <<settings.workerThreads, env.Q_WORKER_THREADS>> \in Numerals
           ELSE env.Q_WORKER_THREADS = Absent
        /\ settings.workerThreads = 50 => env.Q_WORKER_THREADS = "50"
        /\ IF settings.gpu THEN env.Q_ENABLE_GPU # Absent ELSE env.Q_ENABLE_GPU = Absent
        /\ env.Q_ENABLE_GPU \notin {"false", "0", ""}
        /\ env.Q_WORKER_THREADS \notin {"false", "0", ""}

\* C6 witness: a second activation, with the count out of range and the GPU
\* off, has removed the values that the first activation had set
C6_Witness ==
    /\ children = 2
    /\ settings.envBefore.Q_WORKER_THREADS = "50"
    /\ settings.envBefore.Q_ENABLE_GPU = "true"
    /\ settings.workerThreads = 150
    /\ ~settings.gpu
    /\ env.Q_WORKER_THREADS = Absent
    /\ env.Q_ENABLE_GPU = Absent

\* C7: a transport rejection of a request issued by one of the six try/catch
\* methods records exactly one error log entry for that call, tagged with the
\* name of the method that issued it; a call whose request succeeds records none.
C7_RejectionLoggedUnderOwnKind ==
    \A id \in 1..Len(calls) :
        (calls[id].method \in TryCatchMethods /\ Done(id)) =>
            /\ (\E m \in MessagesOf(id) : sent[m].status = "rejected") =>
                /\ Cardinality(LogEntriesOf(id)) = 1
                /\ \A i \in LogEntriesOf(id) : log[i].tag = calls[id].method
            /\ (\E m \in MessagesOf(id) : sent[m].status = "responded") =>
                LogEntriesOf(id) = {}

\* C8: with the channel handle absent, a request of any kind other than
\* get-usage records one log entry before returning its sentinel, while
\* getLspServerUsage returns undefined and records none.
C8_NoChannelLoggedExceptGetUsage ==
    children = 0 =>
        \A id \in 1..Len(calls) :
            Done(id) =>
                Cardinality(LogEntriesOf(id))
                    = IF calls[id].method = "getLspServerUsage" THEN 0 ELSE 1

PositionIn(seq, x) == CHOOSE i \in 1..Len(seq) : seq[i] = x

\* C9: with the channel handle present a call sends exactly one request and
\* resolves with exactly the response the transport gives to that request;
\* requests in flight together are settled independently, and calls complete in
\* the order in which their requests are settled.
C9_OwnResponseInCompletionOrder ==
    /\ \A id \in 1..Len(calls) :
        /\ Cardinality(MessagesOf(id)) <= 1
        /\ ( /\ calls[id].clientAtCall # NoClient
             /\ calls[id].pc # "encrypt"
             /\ ~EncryptFailed(id)
             /\ ~(calls[id].method = "queryV2"
                    /\ calls[id].args.target \notin {"bm25", "vector", "codemap"}) )
            => Cardinality(MessagesOf(id)) = 1
    /\ \A m \in 1..Len(sent) :
        /\ sent[m].status = "responded" =>
            /\ Done(sent[m].call)
            /\ calls[sent[m].call].outcome = "resolved"
            /\ calls[sent[m].call].result = sent[m].response
        /\ sent[m].status = "pending" =>
            /\ calls[sent[m].call].pc = "await"
            /\ calls[sent[m].call].outcome = "pending"
    /\ \A m1, m2 \in 1..Len(sent) :
        (sent[m1].settled > 0 /\ sent[m2].settled > 0 /\ sent[m1].settled < sent[m2].settled)
            => PositionIn(completed, sent[m1].call) < PositionIn(completed, sent[m2].call)

\* C9 witness: two overlapping calls of the same kind got different responses,
\* the later call first
C9_Witness ==
    /\ Len(calls) = 2
    /\ calls[1].method = "query" /\ calls[2].method = "query"
    /\ calls[1].result = "{ok:true}" /\ calls[2].result = "{ok:false}"
    /\ completed = <<2, 1>>
    /\ sent[1].call = 1 /\ sent[2].call = 2
    /\ sent[1].settled = 2 /\ sent[2].settled = 1

\* C10: queryV2(q, target) with the channel present sends exactly one request,
\* under the BM25 tag with {query: q} for 'bm25', the vector tag with {query: q}
\* for 'vector' and the code-map tag with {filePath: q} for 'codemap'; the three
\* tags differ, and any other target sends nothing and resolves to [].
C10_QueryV2ByTarget ==
    /\ \A id \in 1..Len(calls) :
        ( /\ calls[id].method = "queryV2"
          /\ calls[id].clientAtCall # NoClient
          /\ calls[id].pc # "encrypt"
          /\ ~EncryptFailed(id) ) =>
            LET t == calls[id].args.target
                q == calls[id].args.str
            IN IF t \in {"bm25", "vector", "codemap"}
               THEN \E m \in MessagesOf(id) :
                        /\ MessagesOf(id) = {m}
                        /\ sent[m].tag =
                            CASE t = "bm25" -> "QueryBM25IndexRequestType"
                              [] t = "vector" -> "QueryVectorIndexRequestType"
                              [] t = "codemap" -> "QueryCodeMapIndexRequestType"
                        /\ Decrypt(sent[m].payload, key) =
                            IF t = "codemap" THEN <<"{", "filePath", ":", q, "}">>
                            ELSE <<"{", "query", ":", q, "}">>
               ELSE /\ MessagesOf(id) = {}
                    /\ Done(id)
                    /\ calls[id].outcome = "resolved"
                    /\ calls[id].result = "[]"
    /\ \A m1, m2 \in 1..Len(sent) :
        ( /\ calls[sent[m1].call].method = "queryV2"
          /\ calls[sent[m2].call].method = "queryV2"
          /\ calls[sent[m1].call].args.target # calls[sent[m2].call].args.target )
            => sent[m1].tag # sent[m2].tag

\* C10 witness: a code-map query has been sent and a query with an unknown
\* target has returned
C10_Witness ==
    /\ \E m \in 1..Len(sent) :
        /\ calls[sent[m].call].method = "queryV2"
        /\ calls[sent[m].call].args.target = "codemap"
        /\ sent[m].tag = QueryCodeMapIndexRequestType
    /\ \E id \in 1..Len(calls) :
        /\ calls[id].method = "queryV2"
        /\ calls[id].args.target = "other"
        /\ calls[id].clientAtCall # NoClient
        /\ Done(id)


\* C11: every request in flight when deactivate is called is rejected by the
\* closing transport and its call resolves to its kind's sentinel, whatever the
\* kind and however many are in flight; none rejects.
C11_InFlightAtStopResolveToSentinel ==
    \A m \in 1..Len(sent) :
        (sent[m].inFlightAtStop /\ sent[m].status # "pending") =>
            /\ sent[m].status = "rejected"
            /\ Done(sent[m].call)
            /\ calls[sent[m].call].outcome = "resolved"
            /\ calls[sent[m].call].result = SpecSentinel(calls[sent[m].call].method)


\* C12: the client has no timeout and no cancellation. A call that awaits a
\* request completes only in the step in which the transport responds to or
\* rejects that request, and until then it stays pending; over a transport that
\* settles every request, every request sent is eventually settled and its call
\* complete.
C12_NoTimeoutNoCancel ==
    /\ [][\A id \in 1..Len(calls) :
            (calls[id].pc = "await" /\ calls'[id].pc # "await") =>
                \E m \in 1..Len(sent) :
                    /\ sent[m].call = id
                    /\ sent[m].status = "pending"
                    /\ sent'[m].status # "pending"]_vars
    /\ [](\A m \in 1..Len(sent) :
            sent[m].status = "pending" =>
                calls[sent[m].call].pc = "await" /\ calls[sent[m].call].outcome = "pending")
    /\ \A m \in 1..MaxCalls :
        (m <= Len(sent) /\ sent[m].status = "pending")
            ~> (m <= Len(sent) /\ sent[m].status # "pending" /\ Done(sent[m].call))

\* C12 witness: one request has been answered and its call is complete while
\* another, sent earlier, is still pending
C12_Witness ==
    /\ Len(sent) = 2
    /\ sent[1].status = "pending" /\ calls[sent[1].call].pc = "await"
    /\ sent[2].status = "responded" /\ Done(sent[2].call)


\* the text of a stream: its chunks one after the other
RECURSIVE Flatten(_)
Flatten(chunks) == IF chunks = <<>> THEN <<>> ELSE chunks[1] \o Flatten(Tail(chunks))

RECURSIVE Repeat(_, _)
Repeat(text, n) == IF n = 0 THEN <<>> ELSE text \o Repeat(text, n - 1)

\* C13: writeEncryptionInit appends to the stream exactly the JSON text of
\* {version: "1.0", mode: "JWT", key: base64 of the session key} followed by one
\* newline and nothing else, and the key in it is the key encrypt seals with.
C13_InitLineExact ==
    LET text == Flatten(writable.stream)
        before == Flatten(writable.before)
    IN /\ text = before \o Repeat(InitLine \o <<"\n">>, writable.writes)
       /\ (writable.writes >= 1 /\ writable.jwe.enc = "A256GCM") =>
            text[Len(before) + 12] = "base64(" \o writable.jwe.sealedWith \o ")"

\* C13 witness: the line has been written to a stream that already held data,
\* and a payload has been encrypted afterwards
C13_Witness ==
    /\ writable.writes = 1
    /\ writable.before = << <<"x">> >>
    /\ writable.jwe.enc = "A256GCM"
    /\ Len(writable.stream) = 3


\* C14: every read of LspClient.instance, in any order and interleaved with
\* activate, deactivate and requests, yields the same object; the accessor
\* constructs at most one LspClient; and a request reads the channel handle that
\* the latest activate before it has set.
C14_OneInstance ==
    LET acc == singleton.accesses
    IN /\ \A i, j \in 1..Len(acc) : acc[i].object = acc[j].object
       /\ Len(singleton.objects) <= 1
       /\ Len(acc) >= 1 => Len(singleton.objects) = 1
       /\ \A i, j \in 1..Len(acc) :
            ( /\ i < j
              /\ acc[i].by = "activate"
              /\ acc[j].by \in {"request", "deactivate"}
              /\ \A k \in (i + 1)..(j - 1) : acc[k].by # "activate" )
                => (acc[j].client = acc[i].client /\ acc[j].client # NoClient)
       /\ \A j \in 1..Len(acc) :
            (acc[j].by # "activate" /\ \A k \in 1..(j - 1) : acc[k].by # "activate")
                => acc[j].client = NoClient

\* C14 witness: a read constructed the instance, activate set its handle, and a
\* request after a deactivate read that handle
C14_Witness ==
    /\ Len(singleton.accesses) = 4
    /\ singleton.accesses[1].by = "read"
    /\ singleton.accesses[2].by = "activate"
    /\ singleton.accesses[3].by = "deactivate"
    /\ singleton.accesses[4].by = "request"
    /\ singleton.accesses[4].client = 1


\* the calls an event's handlers made
CallsOf(e) == e.first..(e.first + e.count - 1)

\* an updateIndexV2 call carrying the paths of `files` under `mode`, and its
\* request, if sent, carrying them encrypted under the updateIndexV2 tag
CarriesFiles(id, files, mode) ==
    /\ calls[id].method = "updateIndexV2"
    /\ calls[id].args.paths = [i \in 1..Len(files) |-> files[i].fsPath]
    /\ calls[id].args.mode = mode
    /\ Cardinality(MessagesOf(id)) <= 1
    /\ \A m \in MessagesOf(id) :
        /\ sent[m].tag = UpdateIndexV2RequestType
        /\ Decrypt(sent[m].payload, key)
            = <<"{", "filePaths", ":", "[">> \o calls[id].args.paths
                \o <<"]", ",", "updateMode", ":", mode, "}">>

\* C15: every file-creation event makes the handler of each activation dispatch
\* exactly one updateIndexV2 carrying the created paths with updateMode 'add'
\* (so exactly one after activate has run once), every file-deletion event
\* exactly one carrying the deleted paths with 'remove', a rename event
\* dispatches nothing, and no updateIndexV2 is made with 'update' or 'rename'.
C15_FileEventsDispatch ==
    /\ \A i \in 1..Len(handlers.events) :
        LET e == handlers.events[i]
        IN /\ e.kind = "create" =>
                /\ e.count = e.handlers
                /\ \A id \in CallsOf(e) : CarriesFiles(id, e.files, "add")
           /\ e.kind = "delete" =>
                /\ e.count = e.handlers
                /\ \A id \in CallsOf(e) : CarriesFiles(id, e.files, "remove")
           /\ e.kind = "rename" => e.count = 0
    /\ \A id \in 1..Len(calls) :
        calls[id].method = "updateIndexV2" =>
            /\ calls[id].args.mode \in {"add", "remove"}
            /\ \E i \in 1..Len(handlers.events) :
                /\ handlers.events[i].kind \in {"create", "delete"}
                /\ id \in CallsOf(handlers.events[i])

\* C15 witness: after one activate, a creation, a rename and a deletion were
\* delivered; the creation's and the deletion's requests were sent
C15_Witness ==
    /\ Len(handlers.events) = 3
    /\ handlers.events[1].kind = "create" /\ handlers.events[1].handlers = 1
    /\ handlers.events[1].count = 1 /\ Len(handlers.events[1].files) = 2
    /\ handlers.events[2].kind = "rename"
    /\ handlers.events[3].kind = "delete" /\ handlers.events[3].count = 1
    /\ \A id \in 1..2 : MessagesOf(id) # {}

\* the file-scheme document most recently saved before event i, as far as the
\* handlers of activation h were told (undefined if none)
RECURSIVE LastFileSave(_, _)
LastFileSave(h, i) ==
    IF i <= 1 THEN NoDocument
    ELSE LET e == handlers.events[i - 1]
         IN IF e.kind = "save" /\ e.uri.scheme = "file" /\ e.handlers >= h
            THEN e.uri ELSE LastFileSave(h, i - 1)

\* C16: an updateIndex is dispatched only by an active-editor change to a
\* defined editor whose document path differs from the most recently saved
\* file-scheme document, and carries that document's path; such a change
\* dispatches it; a save dispatches nothing, a save of another scheme leaves the
\* remembered document as it was; none is dispatched before a file-scheme save.
C16_UpdateIndexOnEditorChange ==
    /\ \A id \in 1..Len(calls) :
        calls[id].method = "updateIndex" =>
            \E i \in 1..Len(handlers.events) :
                LET e == handlers.events[i]
                    last == LastFileSave(1, i)
                IN /\ e.kind = "editor"
                   /\ id \in CallsOf(e)
                   /\ e.uri # NoDocument
                   /\ last # NoDocument
                   /\ e.uri.fsPath # last.fsPath
                   /\ calls[id].args.str = last.fsPath
    /\ \A i \in 1..Len(handlers.events) :
        LET e == handlers.events[i]
        IN /\ e.kind = "save" => e.count = 0
           /\ e.kind = "editor" =>
                e.count = Cardinality({h \in 1..e.handlers :
                            /\ e.uri # NoDocument
                            /\ LastFileSave(h, i) # NoDocument
                            /\ e.uri.fsPath # LastFileSave(h, i).fsPath})
    /\ \A h \in 1..Len(handlers.saved) :
        handlers.saved[h] = LastFileSave(h, Len(handlers.events) + 1)

\* C16 witness: a file was saved, then a document of another scheme, and a
\* change to an editor on a different path dispatched updateIndex with the
\* file's path
C16_Witness ==
    /\ Len(handlers.events) = 3
    /\ handlers.events[1].kind = "save" /\ handlers.events[1].uri = FileB
    /\ handlers.events[1].handlers = 1
    /\ handlers.events[2].kind = "save" /\ handlers.events[2].uri = UntitledA
    /\ handlers.events[3].kind = "editor" /\ handlers.events[3].uri = FileA
    /\ handlers.events[3].count = 1
    /\ calls[1].args.str = "/b.ts"
    /\ MessagesOf(1) # {}


\* the calls of `op` so far that changed the field `field`
WritesOf(op, field) ==
    {i \in 1..Len(session.history) :
        /\ session.history[i].op = op
        /\ session.history[i].after[field] # session.history[i].before[field]}

\* C17: over any sequence of the two setters, with invokeSuggestionStartTime set
\* once by the caller: a set sdkApiCallStartTime implies a set
\* fetchCredentialStartTime, which implies a set invokeSuggestionStartTime; each
\* setter changes only its own field and at most once; a setter called before
\* its predecessor stage is recorded, or after its own, changes nothing, and
\* the first eligible call records the clock; sdkApiCallStartTime >=
\* fetchCredentialStartTime when both are set.
C17_TimestampsOrdered ==
    LET t == session.times
    IN /\ t.sdkApiCallStartTime # 0 => t.fetchCredentialStartTime # 0
       /\ t.fetchCredentialStartTime # 0 => t.invokeSuggestionStartTime # 0
       /\ (t.sdkApiCallStartTime # 0 /\ t.fetchCredentialStartTime # 0)
            => t.sdkApiCallStartTime >= t.fetchCredentialStartTime
       /\ Cardinality(WritesOf("setFetchCredentialStart", "fetchCredentialStartTime")) <= 1
       /\ Cardinality(WritesOf("setSdkApiCallStart", "sdkApiCallStartTime")) <= 1
       /\ \A i \in 1..Len(session.history) :
            LET c == session.history[i]
            IN /\ c.op = "setFetchCredentialStart" =>
                    /\ c.after.sdkApiCallStartTime = c.before.sdkApiCallStartTime
                    /\ c.after.invokeSuggestionStartTime = c.before.invokeSuggestionStartTime
                    /\ (c.before.invokeSuggestionStartTime = 0
                            \/ c.before.fetchCredentialStartTime # 0) => c.after = c.before
                    /\ (c.before.invokeSuggestionStartTime # 0
                            /\ c.before.fetchCredentialStartTime = 0)
                         => c.after.fetchCredentialStartTime = c.now
               /\ c.op = "setSdkApiCallStart" =>
                    /\ c.after.fetchCredentialStartTime = c.before.fetchCredentialStartTime
                    /\ c.after.invokeSuggestionStartTime = c.before.invokeSuggestionStartTime
                    /\ (c.before.fetchCredentialStartTime = 0
                            \/ c.before.sdkApiCallStartTime # 0) => c.after = c.before
                    /\ (c.before.fetchCredentialStartTime # 0
                            /\ c.before.sdkApiCallStartTime = 0)
                         => c.after.sdkApiCallStartTime = c.now

\* C17 witness: setSdkApiCallStart came too early and changed nothing, then the
\* three stages were recorded at increasing times
C17_Witness ==
    /\ Len(session.history) = 4
    /\ session.history[1].op = "setSdkApiCallStart"
    /\ session.history[1].after = session.history[1].before
    /\ session.times.invokeSuggestionStartTime = 1
    /\ session.times.fetchCredentialStartTime = 2
    /\ session.times.sdkApiCallStartTime = 3

====
